---- MODULE Spec2Model ----
(***************************************************************************)
(* Job lifecycle of the Chart Similarity Analyzer API (src/main.py).       *)
(*                                                                         *)
(* The request handlers are `async def` functions without any await: on    *)
(* the event loop each one runs to completion with respect to the other    *)
(* handlers.  run_analysis is a plain `def` added as a background task, so *)
(* it runs on a worker thread and its statements interleave with the       *)
(* handlers and with the other runs.  The worker takes one access of the   *)
(* store per step and a handler is one step (Spec); SpecRead takes         *)
(* get_job_status one read of the record per step as well (variable req).  *)
(* A response is taken off (send_response) before the next step: that     *)
(* step changes nothing but event, so it orders no two accesses.           *)
(* SpecFair has the requests that dispatch and remove jobs, and the runs,  *)
(* with the fairness of the thread scheduling.                              *)
(***************************************************************************)
EXTENDS Integers, Sequences, FiniteSets, TLC

\* ------------------------------------------------------------------ bounds
MaxJobs == 2      \* uploads accepted in one behaviour (ids 1..MaxJobs)
MaxTasks == 2     \* background runs dispatched in one behaviour
MaxTicks == 2     \* the clock shows 0, TickSeconds, .., MaxTicks * TickSeconds

\* --------------------------------------------------------------- constants
None == "None"                                  \* Python's None, where a str may stand
NoResults == [none |-> TRUE]                    \* Python's None, where a dict may stand
RetentionWindow == 24 * 60 * 60                 \* main.py:285
TickSeconds == RetentionWindow                  \* granularity of the clock
Categories == {"gold", "btc", "usdcad"}         \* main.py:74
ListCategories == Categories \cup {"all"}       \* main.py:256
VideoExtensions ==                              \* main.py:70
    { <<".", "m", "p", "4">>, <<".", "a", "v", "i">>,
      <<".", "m", "o", "v">>, <<".", "m", "k", "v">> }

\* ------------------------------------------------------------------ inputs
JobIds == 1 .. MaxJobs
FileNames ==
    { <<"B", ".", "M", "K", "V">>, <<"m", "p", "4", ".", "t", "x", "t">> }
UploadCategories == {None, "gold", "eth"}
ParamValues ==
    { [fps |-> 2, detect_color |-> "green", category |-> None],
      [fps |-> 0, detect_color |-> "green", category |-> "eth"] }
ProgressValues == {0, 100}
\* time.time() is the wall clock: what a handler reads is an input.  Uploads
\* read the earlier values and sweeps the later ones, so that a job is seen at
\* the ages 0, RetentionWindow (kept) and beyond (removed)
UploadTimes == {k * TickSeconds : k \in 0 .. MaxTicks - 1}
SweepTimes == {k * TickSeconds : k \in 1 .. MaxTicks}
CollaboratorResults == { [bestMatch |-> "frame_12"] }
ListFilters == {"all", "gold", "eth"}

VARIABLES
    jobs,        \* the dict `jobs`: job id -> job record (a dict)
    uploadDirs,  \* ids whose directory uploads/<id> exists
    resultDirs,  \* ids whose directory results/<id> exists
    resultFiles, \* ids whose results/<id>/results.json exists
    tasks,       \* the background runs dispatched so far, in dispatch order
    req,         \* the get_job_status call in progress, or Idle
    event,       \* the response the last step sent, NoResponse if it sent none
    nextId       \* the next fresh uuid

vars == <<jobs, uploadDirs, resultDirs, resultFiles, tasks, req, event, nextId>>

\* ----------------------------------------------------------------- helpers
\* d[k] = v on a Python dict d
SetField(d, k, v) == [x \in DOMAIN d \cup {k} |-> IF x = k THEN v ELSE d[x]]

\* d.get(k, default)
GetField(d, k, default) == IF k \in DOMAIN d THEN d[k] ELSE default

\* a pop that leaves the key in the dict
RemoveKeyKept(d, k) == d

\* del d[k] / d.pop(k)
RemoveKey(d, k) == [x \in DOMAIN d \ {k} |-> d[x]]

\* str.lower() on one character of the file names used here
LowerChar(c) ==
    CASE c = "B" -> "b" [] c = "M" -> "m" [] c = "K" -> "k" [] c = "V" -> "v"
      [] OTHER -> c

Lower(s) == [i \in 1 .. Len(s) |-> LowerChar(s[i])]

EndsWith(s, suffix) ==
    /\ Len(s) >= Len(suffix)
    /\ SubSeq(s, Len(s) - Len(suffix) + 1, Len(s)) = suffix

\* main.py:70
ValidFilename(filename) == \E e \in VideoExtensions : EndsWith(Lower(filename), e)

\* main.py:74
ValidUploadCategory(category) == category \in Categories \cup {None}

\* Python truthiness of an Optional[str]
Truthy(s) == s # None /\ s # ""

Idle == [pc |-> "idle"]

NoResponse == [op |-> "none"]

\* Python truthiness of job.get("results")
ResultsTruthy(r) == r # NoResults /\ DOMAIN r # {}

\* a handler starts: no other handler is running on the event loop
Ready == req = Idle /\ event = NoResponse

\* main.py:101, 133, 165, 250, 306: the response leaves
send_response ==
    /\ event # NoResponse
    /\ event' = NoResponse
    /\ UNCHANGED <<jobs, uploadDirs, resultDirs, resultFiles, tasks, req, nextId>>

\* ------------------------------------------------------------ upload_video
\* the id taken as the smallest one the store does not hold
upload_video_reuse(filename, category, current_time) ==
    /\ Ready
    /\ IF ~ValidFilename(filename) \/ ~ValidUploadCategory(category)
       THEN /\ event' = [op |-> "upload_video", code |-> 400]
            /\ UNCHANGED <<jobs, uploadDirs, nextId>>
       ELSE /\ nextId <= MaxJobs
            /\ LET job_id == CHOOSE id \in JobIds :
                                /\ id \notin DOMAIN jobs
                                /\ \A x \in JobIds : x < id => x \in DOMAIN jobs
               IN /\ uploadDirs' = uploadDirs \cup {job_id}
                  /\ jobs' = SetField(jobs, job_id,
                         [ id |-> job_id, status |-> "uploaded", filename |-> filename,
                           file_path |-> <<job_id, filename>>, created_at |-> current_time,
                           results |-> NoResults, progress |-> 0, category |-> category ])
                  /\ event' = [ op |-> "upload_video", code |-> 200, job_id |-> job_id,
                                filename |-> filename, status |-> "uploaded",
                                category |-> category ]
            /\ nextId' = nextId + 1
    /\ UNCHANGED <<resultDirs, resultFiles, tasks, req>>

\* main.py:63-101
upload_video(filename, category, current_time) ==
    /\ Ready
    /\ IF ~ValidFilename(filename) \/ ~ValidUploadCategory(category)
       THEN /\ event' = [op |-> "upload_video", code |-> 400]
            /\ UNCHANGED <<jobs, uploadDirs, nextId>>
       ELSE /\ nextId <= MaxJobs
            /\ uploadDirs' = uploadDirs \cup {nextId}
            /\ jobs' = SetField(jobs, nextId,
                   [ id |-> nextId, status |-> "uploaded", filename |-> filename,
                     file_path |-> <<nextId, filename>>, created_at |-> current_time,
                     results |-> NoResults, progress |-> 0, category |-> category ])
            /\ nextId' = nextId + 1
            /\ event' = [ op |-> "upload_video", code |-> 200, job_id |-> nextId,
                          filename |-> filename, status |-> "uploaded",
                          category |-> category ]
    /\ UNCHANGED <<resultDirs, resultFiles, tasks, req>>

\* ----------------------------------------------------------- analyze_video
\* main.py:124-131: the arguments of the run, and where it stands
NewTask(job_id, file_path, fps, category) ==
    [ job_id |-> job_id, file_path |-> file_path, output_dir |-> job_id,
      fps |-> fps, category |-> category, pc |-> "call", arg |-> 0,
      results |-> NoResults ]

\* main.py:111-117
Submitted(job, params) ==
    LET j1 == SetField(job, "status", "processing")
        j2 == SetField(j1, "params", params)
        j3 == SetField(j2, "progress", 0)
    IN IF Truthy(params.category) THEN SetField(j3, "category", params.category) ELSE j3

\* the result directory made before the id is looked up
analyze_missing_mkdir(job_id) ==
    /\ event' = [op |-> "analyze_video", code |-> 404, job_id |-> job_id]
    /\ resultDirs' = resultDirs \cup {job_id}
    /\ UNCHANGED <<jobs, tasks>>

\* main.py:107-108
analyze_missing(job_id) ==
    /\ event' = [op |-> "analyze_video", code |-> 404, job_id |-> job_id]
    /\ UNCHANGED <<jobs, resultDirs, tasks>>

analyze_video(job_id, params) ==
    /\ Ready
    /\ IF job_id \notin DOMAIN jobs
       THEN analyze_missing(job_id)
       ELSE /\ Len(tasks) < MaxTasks
            /\ LET job == Submitted(jobs[job_id], params)
               IN /\ jobs' = [jobs EXCEPT ![job_id] = job]
                  /\ resultDirs' = resultDirs \cup {job_id}
                  /\ tasks' = Append(tasks,
                         NewTask(job_id, job.file_path, params.fps,
                                 GetField(job, "category", None)))
                  /\ event' = [ op |-> "analyze_video", code |-> 200, job_id |-> job_id,
                                status |-> "processing",
                                category |-> GetField(job, "category", None) ]
    /\ UNCHANGED <<uploadDirs, resultFiles, req, nextId>>

\* -------------------------------------------------------------- delete_job
delete_job(job_id) ==
    /\ Ready
    /\ IF job_id \notin DOMAIN jobs
       THEN /\ event' = [op |-> "delete_job", code |-> 404, job_id |-> job_id]
            /\ UNCHANGED <<jobs, uploadDirs, resultDirs, resultFiles>>
       ELSE /\ jobs' = RemoveKey(jobs, job_id)
            /\ uploadDirs' = uploadDirs \ {job_id}
            /\ resultDirs' = resultDirs \ {job_id}
            /\ resultFiles' = resultFiles \ {job_id}
            /\ event' = [ op |-> "delete_job", code |-> 200, job_id |-> job_id,
                          status |-> "deleted" ]
    /\ UNCHANGED <<tasks, req, nextId>>

\* -------------------------------------------------------- cleanup_old_jobs
\* the boundary age taken as expired
ExpiredInclusive(job, current_time) == current_time - job.created_at >= RetentionWindow

\* main.py:285
Expired(job, current_time) == current_time - job.created_at > RetentionWindow

\* the response also shows the clock value the handler read
cleanup_old_jobs(current_time) ==
    /\ Ready
    /\ LET jobs_to_remove == {id \in DOMAIN jobs : Expired(jobs[id], current_time)}
       IN /\ jobs' = [id \in DOMAIN jobs \ jobs_to_remove |-> jobs[id]]
          /\ uploadDirs' = uploadDirs \ jobs_to_remove
          /\ resultDirs' = resultDirs \ jobs_to_remove
          /\ resultFiles' = resultFiles \ jobs_to_remove
          /\ event' = [ op |-> "cleanup_old_jobs", code |-> 200,
                        removed |-> Cardinality(jobs_to_remove),
                        current_time |-> current_time ]
    /\ UNCHANGED <<tasks, req, nextId>>

\* ------------------------------------------------------------ run_analysis
Running(i) == i \in 1 .. Len(tasks) /\ event = NoResponse

\* the run moves on; serializable_results is kept while lines 220-222 read it
SetTask(i, pc, arg) ==
    [tasks EXCEPT ![i].pc = pc, ![i].arg = arg,
                  ![i].results = IF pc \in {"set_status", "set_results", "set_progress"}
                                 THEN @ ELSE NoResults]

\* a store that makes the record when it is missing (dict.setdefault)
StoreItemSetDefault(js, job_id, key, value) ==
    IF job_id \in DOMAIN js
    THEN [js EXCEPT ![job_id] = SetField(@, key, value)]
    ELSE SetField(js, job_id,
             SetField([ id |-> job_id, status |-> "uploaded", filename |-> << >>,
                        file_path |-> << >>, created_at |-> 0, results |-> NoResults,
                        progress |-> 0, category |-> None ], key, value))

\* jobs[job_id][key] = value, as the store it leaves: a missing job_id raises
\* KeyError and the store is as it was
StoreItem(js, job_id, key, value) ==
    IF job_id \in DOMAIN js
    THEN [js EXCEPT ![job_id] = SetField(@, key, value)]
    ELSE js

\* the collaborator's result as it came
SerializableResultsPlain(result, category) == result

\* main.py:209-213: the collaborator's result, with the run's category added
SerializableResults(result, category) ==
    IF Truthy(category) THEN SetField(result, "category", category) ELSE result

\* main.py:197-198, 189: the collaborator calls progress_callback(progress);
\* update_progress tests `job_id in jobs`
progress_callback(i, progress) ==
    /\ Running(i) /\ tasks[i].pc = "call"
    /\ tasks' = IF tasks[i].job_id \in DOMAIN jobs
                THEN SetTask(i, "update_progress", progress)
                ELSE tasks
    /\ UNCHANGED <<jobs, uploadDirs, resultDirs, resultFiles, req, event, nextId>>

\* main.py:190: jobs[job_id]["progress"] = progress.  A KeyError here is raised
\* inside the collaborator, which either lets it through or goes on
update_progress(i) ==
    /\ Running(i) /\ tasks[i].pc = "update_progress"
    /\ jobs' = StoreItem(jobs, tasks[i].job_id, "progress", tasks[i].arg)
    /\ IF tasks[i].job_id \in DOMAIN jobs
       THEN tasks' = SetTask(i, "call", 0)
       ELSE \E pc \in {"call", "except"} : tasks' = SetTask(i, pc, 0)
    /\ UNCHANGED <<uploadDirs, resultDirs, resultFiles, req, event, nextId>>

\* main.py:201-217: the collaborator returns, the result is prepared and
\* open(output_dir/results.json, "w") needs the directory
collaborator_returns(i, result) ==
    /\ Running(i) /\ tasks[i].pc = "call"
    /\ IF tasks[i].output_dir \in resultDirs
       THEN /\ resultFiles' = resultFiles \cup {tasks[i].output_dir}
            /\ tasks' = [tasks EXCEPT ![i].pc = "set_status",
                            ![i].results = SerializableResults(result, tasks[i].category)]
       ELSE /\ resultFiles' = resultFiles
            /\ tasks' = SetTask(i, "except", 0)
    /\ UNCHANGED <<jobs, uploadDirs, resultDirs, req, event, nextId>>

\* one of the three stores of main.py:220-222; KeyError goes to the handler
CommitStep(i, pc, key, value, next) ==
    /\ Running(i) /\ tasks[i].pc = pc
    /\ jobs' = StoreItem(jobs, tasks[i].job_id, key, value)
    /\ tasks' = IF tasks[i].job_id \in DOMAIN jobs
                THEN SetTask(i, next, 0)
                ELSE SetTask(i, "except", 0)
    /\ UNCHANGED <<uploadDirs, resultDirs, resultFiles, req, event, nextId>>

\* a completion that leaves the status as analyze_video set it
set_status_processing(i) == CommitStep(i, "set_status", "status", "processing", "set_results")

\* main.py:220
set_status_completed(i) == CommitStep(i, "set_status", "status", "completed", "set_results")

\* main.py:221
set_results(i) == CommitStep(i, "set_results", "results", tasks[i].results, "set_progress")

\* main.py:222
set_progress_100(i) == CommitStep(i, "set_progress", "progress", 100, "done")

\* one of the two stores of main.py:226-227, inside the except block: a
\* KeyError here leaves run_analysis
ExceptStep(i, pc, key, value, next) ==
    /\ Running(i) /\ tasks[i].pc = pc
    /\ jobs' = StoreItem(jobs, tasks[i].job_id, key, value)
    /\ tasks' = IF tasks[i].job_id \in DOMAIN jobs
                THEN SetTask(i, next, 0)
                ELSE SetTask(i, "crashed", 0)
    /\ UNCHANGED <<uploadDirs, resultDirs, resultFiles, req, event, nextId>>

\* a failure that marks every job of the store failed
collaborator_raises_all(i) ==
    /\ Running(i) /\ tasks[i].pc = "call"
    /\ jobs' = [id \in DOMAIN jobs |-> SetField(jobs[id], "status", "failed")]
    /\ tasks' = IF tasks[i].job_id \in DOMAIN jobs
                THEN SetTask(i, "set_error", 0)
                ELSE SetTask(i, "crashed", 0)
    /\ UNCHANGED <<uploadDirs, resultDirs, resultFiles, req, event, nextId>>

\* main.py:201, 224-226: the collaborator raises
collaborator_raises(i) == ExceptStep(i, "call", "status", "failed", "set_error")

\* main.py:226, after an error of lines 190-222
set_status_failed(i) == ExceptStep(i, "except", "status", "failed", "set_error")

\* main.py:227-228
set_error(i) == ExceptStep(i, "set_error", "error", "error", "done")

run_analysis(i) ==
    \/ \E p \in ProgressValues : progress_callback(i, p)
    \/ update_progress(i)
    \/ \E r \in CollaboratorResults : collaborator_returns(i, r)
    \/ collaborator_raises(i)
    \/ set_status_completed(i)
    \/ set_results(i)
    \/ set_progress_100(i)
    \/ set_status_failed(i)
    \/ set_error(i)

\* ---------------------------------------------------------- get_job_status
\* main.py:145-147
ResponseHead(job) == [id |-> job.id, status |-> job.status, filename |-> job.filename]

\* main.py:148-149
WithProgress(response, job) ==
    SetField(SetField(response, "progress", GetField(job, "progress", 0)),
             "category", GetField(job, "category", None))

\* main.py:153, right operand
HasResults(job) == ResultsTruthy(GetField(job, "results", NoResults))

\* main.py:155-157: job["results"]["category"] = job["category"]
MergedResults(job) ==
    IF Truthy(GetField(job, "category", None))
    THEN SetField(job.results, "category", job.category)
    ELSE job.results

\* main.py:162 right operand, and 163
WithError(response, job) ==
    IF "error" \in DOMAIN job THEN SetField(response, "error", job.error) ELSE response

\* main.py:165
Return(job_id, response) ==
    [op |-> "get_job_status", code |-> 200, job_id |-> job_id, response |-> response]

\* the handler in one step
get_job_status(job_id) ==
    /\ Ready
    /\ IF job_id \notin DOMAIN jobs
       THEN /\ event' = [op |-> "get_job_status", code |-> 404, job_id |-> job_id]
            /\ jobs' = jobs
       ELSE LET job == jobs[job_id]
                r1 == WithProgress(ResponseHead(job), job)
                has == job.status = "completed" /\ HasResults(job)
                r2 == IF has THEN SetField(r1, "results", MergedResults(job)) ELSE r1
                r3 == IF job.status = "failed" THEN WithError(r2, job) ELSE r2
            IN /\ jobs' = IF has THEN [jobs EXCEPT ![job_id].results = MergedResults(job)]
                                 ELSE jobs
               /\ event' = Return(job_id, r3)
    /\ UNCHANGED <<uploadDirs, resultDirs, resultFiles, tasks, req, nextId>>

\* the handler one read of the record per step.  main.py:139-147
read_status(job_id) ==
    /\ Ready
    /\ IF job_id \notin DOMAIN jobs
       THEN /\ event' = [op |-> "get_job_status", code |-> 404, job_id |-> job_id]
            /\ req' = req
       ELSE /\ event' = event
            /\ req' = [ pc |-> "progress", job_id |-> job_id,
                        response |-> ResponseHead(jobs[job_id]) ]
    /\ UNCHANGED <<jobs, uploadDirs, resultDirs, resultFiles, tasks, nextId>>

Reading(pc) == req # Idle /\ req.pc = pc /\ event = NoResponse

\* main.py:148-149
read_progress ==
    /\ Reading("progress")
    /\ req' = [req EXCEPT !.pc = "completed",
                          !.response = WithProgress(@, jobs[req.job_id])]
    /\ UNCHANGED <<jobs, uploadDirs, resultDirs, resultFiles, tasks, event, nextId>>

\* main.py:153, left operand: job["status"] == "completed"
test_completed ==
    /\ Reading("completed")
    /\ req' = [req EXCEPT !.pc = IF jobs[req.job_id].status = "completed"
                                 THEN "results" ELSE "failed"]
    /\ UNCHANGED <<jobs, uploadDirs, resultDirs, resultFiles, tasks, event, nextId>>

\* main.py:153 right operand, and 155-159
read_results ==
    /\ Reading("results")
    /\ LET job == jobs[req.job_id]
       IN IF HasResults(job)
          THEN /\ jobs' = [jobs EXCEPT ![req.job_id].results = MergedResults(job)]
               /\ req' = [req EXCEPT !.pc = "failed",
                              !.response = SetField(@, "results", MergedResults(job))]
          ELSE /\ jobs' = jobs
               /\ req' = [req EXCEPT !.pc = "failed"]
    /\ UNCHANGED <<uploadDirs, resultDirs, resultFiles, tasks, event, nextId>>

\* main.py:162, left operand: job["status"] == "failed"; 165 when it is not
test_failed ==
    /\ Reading("failed")
    /\ IF jobs[req.job_id].status = "failed"
       THEN /\ req' = [req EXCEPT !.pc = "error"]
            /\ event' = event
       ELSE /\ req' = Idle
            /\ event' = Return(req.job_id, req.response)
    /\ UNCHANGED <<jobs, uploadDirs, resultDirs, resultFiles, tasks, nextId>>

\* main.py:162 right operand, 163 and 165
read_error ==
    /\ Reading("error")
    /\ req' = Idle
    /\ event' = Return(req.job_id, WithError(req.response, jobs[req.job_id]))
    /\ UNCHANGED <<jobs, uploadDirs, resultDirs, resultFiles, tasks, nextId>>

\* ------------------------------------------- list_jobs, list_jobs_by_category
\* jobs.items(): a dict iterates in insertion order, and ids are inserted in
\* the order they are issued
RECURSIVE Items(_, _)
Items(d, from) ==
    IF from >= nextId THEN << >>
    ELSE IF from \in DOMAIN d THEN <<d[from]>> \o Items(d, from + 1)
    ELSE Items(d, from + 1)

\* main.py:173-179, 262-268
ListEntry(job) ==
    [ id |-> job.id, status |-> job.status, filename |-> job.filename,
      created_at |-> job.created_at, category |-> GetField(job, "category", None) ]

\* x put into a list that is in descending order of created_at, after the
\* entries that do not come after it: equal keys keep the order they had
RECURSIVE InsertNewestFirst(_, _)
InsertNewestFirst(x, s) ==
    IF s = << >> THEN <<x>>
    ELSE IF Head(s).created_at >= x.created_at
         THEN <<Head(s)>> \o InsertNewestFirst(x, Tail(s))
         ELSE <<x>> \o s

\* the list left in the order of creation
SortOldestFirst(s) == s

\* main.py:182, 271: job_list.sort(key=created_at, reverse=True), a stable sort
RECURSIVE SortNewestFirst(_)
SortNewestFirst(s) ==
    IF s = << >> THEN << >>
    ELSE InsertNewestFirst(s[Len(s)], SortNewestFirst(SubSeq(s, 1, Len(s) - 1)))

\* main.py:261
Listed(job, category) == category = "all" \/ GetField(job, "category", None) = category

\* main.py:259-268
RECURSIVE JobList(_, _)
JobList(items, category) ==
    IF items = << >> THEN << >>
    ELSE IF Listed(Head(items), category)
         THEN <<ListEntry(Head(items))>> \o JobList(Tail(items), category)
         ELSE JobList(Tail(items), category)

\* main.py:168-184
list_jobs ==
    /\ Ready
    /\ event' = [ op |-> "list_jobs", code |-> 200,
                  jobs |-> SortNewestFirst(JobList(Items(jobs, 1), "all")) ]
    /\ UNCHANGED <<jobs, uploadDirs, resultDirs, resultFiles, tasks, req, nextId>>

\* main.py:253-273
list_jobs_by_category(category) ==
    /\ Ready
    /\ IF category \notin ListCategories
       THEN event' = [op |-> "list_jobs_by_category", code |-> 400, category |-> category]
       ELSE event' = [ op |-> "list_jobs_by_category", code |-> 200, category |-> category,
                       jobs |-> SortNewestFirst(JobList(Items(jobs, 1), category)) ]
    /\ UNCHANGED <<jobs, uploadDirs, resultDirs, resultFiles, tasks, req, nextId>>

\* ----------------------------------------------------------- specification
Init ==
    /\ jobs = << >>
    /\ uploadDirs = {}
    /\ resultDirs = {}
    /\ resultFiles = {}
    /\ tasks = << >>
    /\ req = Idle
    /\ event = NoResponse
    /\ nextId = 1

Next ==
    \/ \E f \in FileNames, c \in UploadCategories, t \in UploadTimes : upload_video(f, c, t)
    \/ \E id \in JobIds, p \in ParamValues : analyze_video(id, p)
    \/ \E id \in JobIds : get_job_status(id)
    \/ \E id \in JobIds : delete_job(id)
    \/ \E t \in SweepTimes : cleanup_old_jobs(t)
    \/ list_jobs
    \/ \E c \in ListFilters : list_jobs_by_category(c)
    \/ \E i \in 1 .. MaxTasks : run_analysis(i)
    \/ send_response

Spec == Init /\ [][Next]_vars

\* get_job_status one read per step, among uploads, submissions and runs
NextRead ==
    \/ \E f \in FileNames, c \in UploadCategories, t \in UploadTimes : upload_video(f, c, t)
    \/ \E id \in JobIds, p \in ParamValues : analyze_video(id, p)
    \/ \E id \in JobIds : delete_job(id)
    \/ \E id \in JobIds : read_status(id)
    \/ read_progress
    \/ test_completed
    \/ read_results
    \/ test_failed
    \/ read_error
    \/ \E i \in 1 .. MaxTasks : run_analysis(i)
    \/ send_response

SpecRead == Init /\ [][NextRead]_vars

\* the requests that dispatch and remove jobs, and the runs, under fairness;
\* no step of this specification compares times, and every upload reads 0.
\* main.py:201: the call of the collaborator ends, by a return or by a raise
collaborator_ends(i) ==
    \/ \E r \in CollaboratorResults : collaborator_returns(i, r)
    \/ collaborator_raises(i)

NextFair ==
    \/ \E f \in FileNames, c \in UploadCategories : upload_video(f, c, 0)
    \/ \E id \in JobIds, p \in ParamValues : analyze_video(id, p)
    \/ \E id \in JobIds : delete_job(id)
    \/ \E i \in 1 .. MaxTasks : run_analysis(i)
    \/ send_response

\* A response that is ready is sent.  The thread of a run is scheduled again
\* and again: its step waits only for a response to be sent, so it is taken
\* if it is possible again and again.  A call of the collaborator does not go
\* on reporting progress for ever.
Fairness ==
    /\ WF_vars(send_response)
    /\ \A i \in 1 .. MaxTasks :
          /\ SF_vars(run_analysis(i))
          /\ SF_vars(collaborator_ends(i))

SpecFair == Init /\ [][NextFair]_vars /\ Fairness

\* ------------------------------------------------------------------ claims
TaskIds == 1 .. Len(tasks)

TasksOf(id) == {i \in TaskIds : tasks[i].job_id = id}

Submitted200(e, id) == e.op = "analyze_video" /\ e.code = 200 /\ e.job_id = id

GetJob200(e) == e.op = "get_job_status" /\ e.code = 200

\* C1: in every reachable state every job record has results present exactly
\* when its status is completed, and an error exactly when its status is failed.
C1_ResultsIffCompleted ==
    \A id \in DOMAIN jobs :
        /\ (jobs[id].results # NoResults) <=> (jobs[id].status = "completed")
        /\ ("error" \in DOMAIN jobs[id]) <=> (jobs[id].status = "failed")

\* C2: for a job with exactly one run dispatched, get_job_status never returns
\* status completed without results or with progress other than 100, and never
\* returns status failed without an error, wherever it interleaves with the run.
C2_CommitIsAtomic ==
    (GetJob200(event) /\ Cardinality(TasksOf(event.job_id)) = 1) =>
        /\ event.response.status = "completed" =>
               /\ "results" \in DOMAIN event.response
               /\ event.response.progress = 100
        /\ event.response.status = "failed" => "error" \in DOMAIN event.response

\* C3: for a job that has been submitted, the progress get_job_status returns is
\* within 0..100 and is 100 exactly when the returned status is completed.
C3_Progress100IffCompleted ==
    (GetJob200(event) /\ TasksOf(event.job_id) # {}) =>
        /\ event.response.progress \in 0 .. 100
        /\ (event.response.progress = 100) <=> (event.response.status = "completed")

\* C4: in a step that is no analyze_video call on the job and that leaves its
\* status processing, the stored progress does not decrease; an analyze_video
\* call sets it to 0 and the last store of a completion sets it to 100.
C4_ProgressMonotone ==
    [][\A id \in DOMAIN jobs \cap DOMAIN jobs' :
          /\ ( /\ jobs[id].status = "processing"
               /\ jobs'[id].status = "processing"
               /\ ~Submitted200(event', id) )
             => jobs'[id].progress >= jobs[id].progress
          /\ Submitted200(event', id) => jobs'[id].progress = 0
          /\ (\E i \in TasksOf(id) : tasks[i].pc = "set_progress" /\ tasks'[i].pc = "done")
             => jobs'[id].progress = 100
      ]_vars

\* C5: a step of a run whose job was removed by delete_job or cleanup_old_jobs
\* leaves the store as it is and does not end the run with an error leaving
\* run_analysis.
C5_WorkerEndsNormally ==
    [][\A i \in TaskIds :
          (tasks[i].job_id \notin DOMAIN jobs /\ tasks'[i] # tasks[i]) =>
              /\ jobs' = jobs
              /\ tasks'[i].pc # "crashed"
      ]_vars

\* C6: an id that was issued and is no longer in the store is not in the store
\* after any step: no progress update, completion or failure of a run puts a
\* record back under the id of a removed job.
C6_NeverRecreated ==
    [][\A id \in 1 .. nextId - 1 : id \notin DOMAIN jobs => id \notin DOMAIN jobs']_vars

\* two runs of a removed job: one has gone through its failure stores, the
\* other passed the membership test of update_progress before the removal and
\* has its store still to do
C6_Witness ==
    \E i, j \in TaskIds :
        /\ tasks[i].job_id \notin DOMAIN jobs
        /\ tasks[j].job_id = tasks[i].job_id
        /\ tasks[i].pc = "crashed"
        /\ tasks[j].pc = "update_progress"

\* params the specification calls malformed
Malformed(params) ==
    \/ params.fps <= 0
    \/ params.category # None /\ params.category \notin Categories

\* C7: analyze_video with malformed params on a job of the store answers 400 and
\* leaves the record, the result directories and the runs as they were.
C7_MalformedParamsRejected ==
    [][\A id \in DOMAIN jobs : \A p \in ParamValues :
          (Malformed(p) /\ analyze_video(id, p)) =>
              /\ event'.code = 400
              /\ UNCHANGED <<jobs, resultDirs, tasks>>
      ]_vars

\* C8: analyze_video on an id that is not in the store answers 404 and changes
\* neither the store, nor the directories, nor the runs.
C8_MissingIdNoEffect ==
    [][\A id \in JobIds :
          (event'.op = "analyze_video" /\ event'.job_id = id /\ id \notin DOMAIN jobs) =>
              /\ event'.code = 404
              /\ UNCHANGED <<jobs, uploadDirs, resultDirs, resultFiles, tasks, nextId>>
      ]_vars

\* the call came for the id of a job that was removed with a run in flight
C8_Witness ==
    /\ event.op = "analyze_video" /\ event.code = 404
    /\ event.job_id < nextId
    /\ \E i \in TaskIds : tasks[i].job_id = event.job_id /\ tasks[i].pc = "call"

LegalTransitions ==
    { <<"uploaded", "processing">>, <<"processing", "processing">>,
      <<"processing", "completed">>, <<"processing", "failed">> }

\* C9: in every step the status of a job stays as it is or changes along
\* uploaded -> processing, processing -> completed, processing -> failed.
C9_Lifecycle ==
    [][\A id \in DOMAIN jobs \cap DOMAIN jobs' :
          \/ jobs'[id].status = jobs[id].status
          \/ <<jobs[id].status, jobs'[id].status>> \in LegalTransitions
      ]_vars

\* C10: cleanup_old_jobs reading the clock at t removes exactly the jobs with
\* t - created_at > 24 h, whatever their status, leaves the other records as
\* they were and returns the number removed; when no job is that old it
\* removes nothing and returns 0, and after it no job is that old at t.
C10_SweepExact ==
    [][event'.op = "cleanup_old_jobs" =>
          LET t == event'.current_time
              old == {id \in DOMAIN jobs : t - jobs[id].created_at > RetentionWindow}
          IN /\ DOMAIN jobs' = DOMAIN jobs \ old
             /\ \A id \in DOMAIN jobs' : jobs'[id] = jobs[id]
             /\ event'.removed = Cardinality(old)
             /\ old = {} => (jobs' = jobs /\ event'.removed = 0)
             /\ \A id \in DOMAIN jobs' : ~(t - jobs'[id].created_at > RetentionWindow)
      ]_vars

\* a sweep removed a processing job whose run is in flight and kept a job
\* whose age is the retention window
C10_Witness ==
    /\ event.op = "cleanup_old_jobs" /\ event.removed = 1
    /\ \E i \in TaskIds : tasks[i].job_id \notin DOMAIN jobs /\ tasks[i].pc = "call"
    /\ \E id \in DOMAIN jobs : event.current_time - jobs[id].created_at = RetentionWindow

Issued == 1 .. nextId - 1

\* C11: delete_job on a job of the store removes that record and no other and
\* answers 200; after that delete_job, get_job_status and analyze_video on the
\* same id answer 404, whatever steps were taken in between.
C11_DeleteThenNotFound ==
    [][ /\ (event'.op = "delete_job" /\ event'.code = 200) =>
              /\ event'.job_id \in DOMAIN jobs
              /\ DOMAIN jobs' = DOMAIN jobs \ {event'.job_id}
              /\ \A x \in DOMAIN jobs' : jobs'[x] = jobs[x]
              /\ event'.status = "deleted"
        /\ \A id \in Issued :
              ( /\ id \notin DOMAIN jobs
                /\ event'.op \in {"delete_job", "get_job_status", "analyze_video"}
                /\ event'.job_id = id )
              => event'.code = 404
      ]_vars

\* get_job_status answers 404 for a deleted id after a run of that job went
\* through its failure stores, while another job is in the store
C11_Witness ==
    /\ event.op = "get_job_status" /\ event.code = 404
    /\ event.job_id \in Issued
    /\ \E i \in TaskIds : tasks[i].job_id = event.job_id /\ tasks[i].pc = "crashed"
    /\ DOMAIN jobs # {}

\* C12: an upload that is accepted adds one record, with status uploaded,
\* progress 0, no results, no error and the category given, under an id that
\* was not issued before (the ids of removed jobs and of their runs included),
\* and leaves the other records as they were.
C12_UploadAddsFreshRecord ==
    [][(event'.op = "upload_video" /\ event'.code = 200) =>
          LET id == event'.job_id
          IN /\ id \notin Issued
             /\ id \notin DOMAIN jobs
             /\ \A i \in TaskIds : tasks[i].job_id # id
             /\ DOMAIN jobs' = DOMAIN jobs \cup {id}
             /\ jobs'[id].id = id
             /\ jobs'[id].status = "uploaded"
             /\ jobs'[id].progress = 0
             /\ jobs'[id].results = NoResults
             /\ "error" \notin DOMAIN jobs'[id]
             /\ jobs'[id].category = event'.category
             /\ \A x \in DOMAIN jobs : jobs'[x] = jobs[x]
      ]_vars

\* an upload was accepted after the first job was deleted with a run in flight
C12_Witness ==
    /\ event.op = "upload_video" /\ event.code = 200
    /\ \E id \in Issued \ DOMAIN jobs :
           /\ id < event.job_id
           /\ \E i \in TaskIds : tasks[i].job_id = id /\ tasks[i].pc = "call"

\* run i takes a step of its failure path: the collaborator raises, or one of
\* the stores of the except block is made
FailureStep(i) ==
    /\ tasks'[i] # tasks[i]
    /\ \/ tasks'[i].pc \in {"except", "set_error", "crashed"}
       \/ tasks[i].pc = "set_error"

\* C13: a step of the failure path of a run of job A changes no record but
\* A's, no run but this one, and no directory or file: the raise leaves A failed
\* and the last store leaves A with an error, and every other run stands where
\* it stood, with the record and the result directory it works on as they were.
C13_FailureIsLocal ==
    [][\A i \in TaskIds :
          FailureStep(i) =>
              LET A == tasks[i].job_id
              IN /\ DOMAIN jobs' = DOMAIN jobs
                 /\ \A id \in DOMAIN jobs \ {A} : jobs'[id] = jobs[id]
                 /\ \A j \in TaskIds \ {i} : tasks'[j] = tasks[j]
                 /\ Len(tasks') = Len(tasks)
                 /\ UNCHANGED <<uploadDirs, resultDirs, resultFiles, nextId>>
                 /\ (A \in DOMAIN jobs /\ tasks'[i].pc = "set_error")
                       => jobs'[A].status = "failed"
                 /\ (A \in DOMAIN jobs /\ tasks[i].pc = "set_error")
                       => "error" \in DOMAIN jobs'[A]
      ]_vars

\* the run of one job ended failed with its error stored, and the run of
\* another job went through to completed
C13_Witness ==
    \E i, j \in TaskIds :
        /\ tasks[i].job_id # tasks[j].job_id
        /\ tasks[i].job_id \in DOMAIN jobs /\ tasks[j].job_id \in DOMAIN jobs
        /\ tasks[i].pc = "done" /\ tasks[j].pc = "done"
        /\ jobs[tasks[i].job_id].status = "failed"
        /\ "error" \in DOMAIN jobs[tasks[i].job_id]
        /\ jobs[tasks[j].job_id].status = "completed"
        /\ jobs[tasks[j].job_id].progress = 100
        /\ jobs[tasks[j].job_id].results # NoResults

\* C14: after every step the category of every job record is None or one of
\* gold, btc, usdcad; an analyze_video call whose params carry another
\* category answers 400 and stores nothing.
C14_CategoryInSet ==
    [][ /\ \A id \in DOMAIN jobs' :
              GetField(jobs'[id], "category", None) \in Categories \cup {None}
        /\ \A id \in DOMAIN jobs : \A p \in ParamValues :
              (p.category \notin Categories \cup {None} /\ analyze_video(id, p)) =>
                  /\ event'.code = 400
                  /\ jobs' = jobs
      ]_vars

ListOps == {"list_jobs", "list_jobs_by_category"}

\* the filter of a list response: list_jobs has none, which lists every job
FilterOf(e) == IF e.op = "list_jobs" THEN "all" ELSE e.category

\* C15: a list call with filter c among gold, btc, usdcad, all (or with none)
\* answers 200 with one entry for each job of the store whose category is c
\* (for each job when c is all or there is no filter) and no other entry, each
\* entry showing the record, the entries in descending order of created_at;
\* a call with another filter answers 400 and carries no list.
C15_ListIsFilteredAndSorted ==
    [][event'.op \in ListOps =>
          LET c == FilterOf(event')
          IN IF c \notin {"gold", "btc", "usdcad", "all"}
             THEN event'.code = 400 /\ "jobs" \notin DOMAIN event'
             ELSE LET l == event'.jobs
                      wanted == {id \in DOMAIN jobs :
                                    c = "all" \/ GetField(jobs[id], "category", None) = c}
                  IN /\ event'.code = 200
                     /\ {l[k].id : k \in 1 .. Len(l)} = wanted
                     /\ Len(l) = Cardinality(wanted)
                     /\ \A k \in 1 .. Len(l) :
                           /\ l[k].status = jobs[l[k].id].status
                           /\ l[k].filename = jobs[l[k].id].filename
                           /\ l[k].created_at = jobs[l[k].id].created_at
                           /\ l[k].category = GetField(jobs[l[k].id], "category", None)
                     /\ \A a, b \in 1 .. Len(l) :
                           a < b => l[a].created_at >= l[b].created_at
      ]_vars

\* the job created last was uploaded first: the list shows it after the other
C15_Witness ==
    /\ event.op = "list_jobs_by_category" /\ event.code = 200
    /\ Len(event.jobs) = 2
    /\ event.jobs[1].id > event.jobs[2].id
    /\ event.jobs[1].created_at > event.jobs[2].created_at

\* R with the category under the key category when there is one
WithCategory(R, category) ==
    IF category = None THEN R
    ELSE [x \in DOMAIN R \cup {"category"} |-> IF x = "category" THEN category ELSE R[x]]

\* C16: when the only run of a job has ended after its collaborator returned R
\* (results.json is written) and the job is in the store, the job is completed
\* with progress 100 and its results are R with the job's category added when
\* it has one, whatever progress was reported during the call.
C16_SingleRunCompletes ==
    \A i \in TaskIds :
        LET id == tasks[i].job_id
        IN ( /\ tasks[i].pc = "done"
             /\ TasksOf(id) = {i}
             /\ id \in DOMAIN jobs
             /\ id \in resultFiles )
           => /\ jobs[id].status = "completed"
              /\ jobs[id].progress = 100
              /\ jobs[id].results \in
                    {WithCategory(R, jobs[id].category) : R \in CollaboratorResults}

\* the only run of a job with a category has ended after a return
C16_Witness ==
    \E i \in TaskIds :
        /\ tasks[i].pc = "done"
        /\ TasksOf(tasks[i].job_id) = {i}
        /\ tasks[i].job_id \in DOMAIN jobs \cap resultFiles
        /\ jobs[tasks[i].job_id].category = "gold"
        /\ jobs[tasks[i].job_id].results # NoResults

\* C17: a get_job_status response carries results only with status completed
\* and an error only with status failed, and results returned for a job with a
\* category carry that category.
C17_ResultsOnlyWhenCompleted ==
    GetJob200(event) =>
        LET r == event.response
        IN /\ "results" \in DOMAIN r => r.status = "completed"
           /\ "error" \in DOMAIN r => r.status = "failed"
           /\ ("results" \in DOMAIN r /\ r.category # None) =>
                  /\ "category" \in DOMAIN r.results
                  /\ r.results.category = r.category

\* C18: get_job_status, list_jobs and list_jobs_by_category leave every field
\* of every job record as it was, the stored results included.
C18_QueriesAreReadOnly ==
    [][event'.op \in {"get_job_status"} \cup ListOps => jobs' = jobs]_vars

Terminal == {"completed", "failed"}

\* C19: a job that is processing is later completed or failed, unless it is
\* removed from the store; and a completed or failed job stays completed or
\* failed in every step that is no analyze_video call on it.
C19_RunsEnd ==
    /\ \A id \in JobIds :
          (id \in DOMAIN jobs /\ jobs[id].status = "processing")
              ~> (id \notin DOMAIN jobs \/ jobs[id].status \in Terminal)
    /\ [][\A id \in DOMAIN jobs \cap DOMAIN jobs' :
              (jobs[id].status \in Terminal /\ ~Submitted200(event', id))
                  => jobs'[id].status \in Terminal
        ]_vars

\* both runs of a job submitted twice have ended and the job is in the store
C19_Witness ==
    \E i, j \in TaskIds :
        /\ i # j /\ tasks[i].job_id = tasks[j].job_id
        /\ tasks[i].pc = "done" /\ tasks[j].pc = "done"
        /\ tasks[i].job_id \in DOMAIN jobs
        /\ jobs[tasks[i].job_id].status \in Terminal

\* C20: in every state, for every id, the directory uploads/<id> exists exactly
\* when the store holds a record for the id, and so does results/<id>.
C20_DirsIffRecord ==
    \A id \in JobIds :
        /\ id \in uploadDirs <=> id \in DOMAIN jobs
        /\ id \in resultDirs <=> id \in DOMAIN jobs
====
